---- MODULE Spec2Model ----
(***************************************************************************)
(* A model of dooferlad/blight: a thin layer of helpers over a bbolt       *)
(* store.  Two copies of the API exist: src/blight.go (Set/Append go       *)
(* through db.Batch, AllFunc runs its callback on a pool of goroutines      *)
(* inside db.Update) and src/unnamed/part_000 (Set/Append go through       *)
(* db.Update, AllFunc runs its callback in the cursor loop inside db.View). *)
(*                                                                         *)
(* The engine (go.etcd.io/bbolt) is an imported dependency; its calls are  *)
(* modelled by their documented contract at the places the wrapper makes   *)
(* them: one writer at a time, a write transaction works on a private copy *)
(* that replaces the committed store on commit and is dropped on error or  *)
(* panic, a read transaction works on the snapshot taken when it began.    *)
(* Engine faults (I/O errors, a closed handle) are not modelled.           *)
(***************************************************************************)
EXTENDS Integers, Sequences, FiniteSets, TLC

VARIABLES
    variant,   \* which copy of the API the program is built from
    db,        \* committed store: bucket name -> [kv, seq]
    hist,      \* committed history (ghost): what the committed writes did
    lock,      \* holder of the engine's writer lock
    tx,        \* working copy of the open write transaction: [s, h]
    pc,        \* per caller: position inside the call it is making
    op,        \* per caller: the call it is making or made last
    ret,       \* per caller: what its last call returned
    snap,      \* per caller: snapshot of its open read transaction
    batch,     \* db.batch: the calls waiting in the engine's open batch
    running,   \* a batch detached by trigger(), its calls not yet answered
    nops,      \* number of calls started so far
    exited,    \* the process has ended in logrus.Fatal
    \* ---- worker-pool / cursor-loop AllFunc, step by step ----
    apc,       \* position of the AllFunc call
    cur,       \* cursor position (index into the bucket's ordered records)
    tokens,    \* number of tokens in the tokens channel
    wg,        \* the WaitGroup's counter
    gor,       \* per dispatched record: phase of its goroutine
    calls,     \* ghost: the (k, v) pairs fn has been invoked with, in order
    maxrun,    \* ghost: most callbacks ever executing at once
    aret       \* what AllFunc returned

vars == <<variant, db, hist, lock, tx, pc, op, ret, snap, batch, running,
          nops, exited, apc, cur, tokens, wg, gor, calls, maxrun, aret>>

storeVars == <<variant, db, hist, lock, tx, pc, op, ret, snap, batch, running,
               nops, exited>>
poolVars == <<apc, cur, tokens, wg, gor, calls, maxrun, aret>>

----------------------------------------------------------------------------
(* Bounds of the model *)

\* number of calls the callers make in one behaviour
MaxOps == 2
\* db.MaxBatchSize of the modelled engine handle (bbolt's default is 1000):
\* a batch holding this many calls is triggered at once
MaxBatch == 2
\* number of tokens of AllFunc's pool; the source has 30 (src/blight.go:168),
\* the model runs the same loop with a smaller pool
PoolSize == 2
\* most records of the bucket AllFunc walks
MaxRecords == 3

Procs == {"p1", "p2"}

\* bucket names the callers use; "" is the empty name
Buckets == {"", "b1", "b2"}

NoErr == ""
ErrBucketNameRequired == "bucket name required"
ErrBucketNotFound == "bucket not found"
ErrKeyRequired == "key required"
ErrWrapperBucketNotFound == "bucket %q not found"
ErrMarshal == "json: unsupported type"

\* optional []byte: nil is <<>>, a slice v is <<v>>
None == <<>>
Some(v) == <<v>>

----------------------------------------------------------------------------
(* Byte strings *)

RECURSIVE itobRec(_, _)
itobRec(v, n) ==
    IF n = 0 THEN <<>> ELSE Append(itobRec(v \div 256, n - 1), v % 256)

\* mutant: little endian
RECURSIVE itobLE(_, _)
itobLE(v, n) ==
    IF n = 0 THEN <<>> ELSE <<v % 256>> \o itobLE(v \div 256, n - 1)

itobLittle(v) == itobLE(v, 8)

\* itob returns an 8-byte big endian representation of v
itob(v) == itobRec(v, 8)

\* bytes.Compare(a, b) < 0
RECURSIVE BytesLess(_, _)
BytesLess(a, b) ==
    IF Len(b) = 0 THEN FALSE
    ELSE IF Len(a) = 0 THEN TRUE
    ELSE IF a[1] # b[1] THEN a[1] < b[1]
    ELSE BytesLess(Tail(a), Tail(b))

\* json.Marshal on the Go values the callers pass
GoValues == {"strA", "chan"}
Marshal(gv) ==
    CASE gv = "strA" -> [err |-> NoErr, j |-> <<34, 97, 34>>]
      [] OTHER -> [err |-> ErrMarshal, j |-> <<>>]

\* keys and values the callers pass: the empty key and a one-byte key
Keys == {<<>>, <<107>>}
Values == {<<49>>, <<50>>}

----------------------------------------------------------------------------
(* The engine's bucket: records kept in ascending key order, and a sequence *)

EmptyBucket == [kv |-> <<>>, seq |-> 0]

\* index of the first record whose key is >= k (Len + 1 when none): Cursor.seek
RECURSIVE SeekFrom(_, _, _)
SeekFrom(kv, k, i) ==
    IF i > Len(kv) THEN i
    ELSE IF BytesLess(kv[i][1], k) THEN SeekFrom(kv, k, i + 1)
    ELSE i

Seek(kv, k) == SeekFrom(kv, k, 1)

HasKey(kv, k) == LET i == Seek(kv, k) IN i <= Len(kv) /\ kv[i][1] = k

\* mutant: Put that keeps the old value of an existing key
PutKeep(bkt, k, v) ==
    IF Len(k) = 0 THEN [b |-> bkt, err |-> ErrKeyRequired]
    ELSE LET i == Seek(bkt.kv, k)
         IN IF i <= Len(bkt.kv) /\ bkt.kv[i][1] = k
            THEN [b |-> bkt, err |-> NoErr]
            ELSE [b |-> [bkt EXCEPT !.kv = SubSeq(bkt.kv, 1, i - 1) \o <<<<k, v>>>>
                                          \o SubSeq(bkt.kv, i, Len(bkt.kv))],
                  err |-> NoErr]

\* Bucket.Put: a blank key is refused; an existing key has its value replaced
Put(bkt, k, v) ==
    IF Len(k) = 0 THEN [b |-> bkt, err |-> ErrKeyRequired]
    ELSE LET i == Seek(bkt.kv, k)
         IN IF i <= Len(bkt.kv) /\ bkt.kv[i][1] = k
            THEN [b |-> [bkt EXCEPT !.kv[i] = <<k, v>>], err |-> NoErr]
            ELSE [b |-> [bkt EXCEPT !.kv = SubSeq(bkt.kv, 1, i - 1) \o <<<<k, v>>>>
                                          \o SubSeq(bkt.kv, i, Len(bkt.kv))],
                  err |-> NoErr]

\* Bucket.Get: nil when the key does not exist
BGet(bkt, k) ==
    LET i == Seek(bkt.kv, k)
    IN IF i <= Len(bkt.kv) /\ bkt.kv[i][1] = k THEN Some(bkt.kv[i][2]) ELSE None

\* Bucket.Delete: a key that does not exist is no error, nothing is done
BDelete(bkt, k) ==
    LET i == Seek(bkt.kv, k)
    IN IF i <= Len(bkt.kv) /\ bkt.kv[i][1] = k
       THEN [bkt EXCEPT !.kv = SubSeq(bkt.kv, 1, i - 1) \o SubSeq(bkt.kv, i + 1, Len(bkt.kv))]
       ELSE bkt

\* Bucket.NextSequence: advances the bucket's sequence and returns it
NextSequence(bkt) == [b |-> [bkt EXCEPT !.seq = bkt.seq + 1], id |-> bkt.seq + 1]

----------------------------------------------------------------------------
(* The engine's transaction: a store is a function bucket name -> bucket *)

EmptyStore == [n \in {} |-> EmptyBucket]

\* tx.Bucket(name) # nil
TxBucket(s, name) == name \in DOMAIN s

\* tx.CreateBucketIfNotExists: a blank name is refused, an existing bucket kept
CreateBucketIfNotExists(s, name) ==
    IF name = "" THEN [s |-> s, err |-> ErrBucketNameRequired]
    ELSE IF name \in DOMAIN s THEN [s |-> s, err |-> NoErr]
    ELSE [s |-> [n \in DOMAIN s \cup {name} |-> IF n = name THEN EmptyBucket ELSE s[n]],
          err |-> NoErr]

\* tx.DeleteBucket: an error when the bucket cannot be found
TxDeleteBucket(s, name) ==
    IF name \notin DOMAIN s THEN [s |-> s, err |-> ErrBucketNotFound]
    ELSE [s |-> [n \in DOMAIN s \ {name} |-> s[n]], err |-> NoErr]

----------------------------------------------------------------------------
(* History (ghost): per bucket, the last committed write and the keys that   *)
(* Append stored, in commit order; a removal of the bucket is marked by None *)

\* had: the key was in the bucket before the write
NoWrite == [name |-> "none", k |-> <<>>, v |-> <<>>, had |-> FALSE]
Wrote(name, k, v, had) == [name |-> name, k |-> k, v |-> v, had |-> had]

EmptyHist == [last |-> [n \in Buckets |-> NoWrite], app |-> [n \in Buckets |-> <<>>]]

Touch(h, b, w) == [h EXCEPT !.last[b] = w]
Appended(h, b, key, v) ==
    [h EXCEPT !.last[b] = Wrote("Append", key, v, FALSE), !.app[b] = Append(@, Some(key))]
Removed(h, b, w) == [h EXCEPT !.last[b] = w, !.app[b] = Append(@, None)]

----------------------------------------------------------------------------
(* The closures the wrapper hands to db.Update / db.Batch / db.View.  A     *)
(* write closure maps the transaction's working copy t = [s, h, base] to    *)
(* [t, err, out]; out is "ok", "panic" or "fatal" (logrus.Fatal).           *)

Ok(t) == [t |-> t, err |-> NoErr, out |-> "ok"]
Fail(t, e) == [t |-> t, err |-> e, out |-> "ok"]

\* func(tx) of Set
SetFn(t, o) ==
    LET c == CreateBucketIfNotExists(t.s, o.b)
    IN IF c.err # NoErr THEN Fail(t, c.err)
       ELSE LET p == Put(c.s[o.b], o.k, o.v)
            IN IF p.err # NoErr THEN Fail([t EXCEPT !.s = c.s], p.err)
               ELSE Ok([t EXCEPT !.s = [c.s EXCEPT ![o.b] = p.b],
                                 !.h = Touch(t.h, o.b, Wrote("Set", o.k, o.v, HasKey(c.s[o.b].kv, o.k)))])

\* func(tx) of Append
AppendFn(t, o) ==
    LET c == CreateBucketIfNotExists(t.s, o.b)
    IN IF c.err # NoErr THEN Fail(t, c.err)
       ELSE LET n == NextSequence(c.s[o.b])
                p == Put(n.b, itob(n.id), o.v)
            IN IF p.err # NoErr THEN Fail([t EXCEPT !.s = c.s], p.err)
               ELSE Ok([t EXCEPT !.s = [c.s EXCEPT ![o.b] = p.b],
                                 !.h = Appended(t.h, o.b, itob(n.id), o.v)])

\* mutant: Delete that creates the bucket instead of failing
DeleteFnCreating(t, o) ==
    LET c == CreateBucketIfNotExists(t.s, o.b)
    IN IF c.err # NoErr THEN Fail(t, c.err)
       ELSE Ok([t EXCEPT !.s = [c.s EXCEPT ![o.b] = BDelete(c.s[o.b], o.k)],
                         !.h = Touch(t.h, o.b, Wrote("Delete", o.k, <<>>, FALSE))])

\* func(tx) of Delete
DeleteFn(t, o) ==
    IF ~TxBucket(t.s, o.b) THEN Fail(t, ErrWrapperBucketNotFound)
    ELSE Ok([t EXCEPT !.s[o.b] = BDelete(t.s[o.b], o.k),
                      !.h = Touch(t.h, o.b, Wrote("Delete", o.k, <<>>, HasKey(t.s[o.b].kv, o.k)))])

\* func(tx) of DB.CreateBucket
CreateBucketFn(t, o) ==
    LET c == CreateBucketIfNotExists(t.s, o.b)
    IN IF c.err # NoErr THEN Fail(t, c.err)
       ELSE IF TxBucket(t.s, o.b) THEN Ok(t)
       ELSE Ok([t EXCEPT !.s = c.s, !.h = Touch(t.h, o.b, Wrote("CreateBucket", <<>>, <<>>, FALSE))])

\* func(tx) of DB.DeleteBucket
DeleteBucketFn(t, o) ==
    LET d == TxDeleteBucket(t.s, o.b)
    IN IF d.err # NoErr THEN Fail(t, d.err)
       ELSE Ok([t EXCEPT !.s = d.s, !.h = Removed(t.h, o.b, Wrote("DeleteBucket", <<>>, <<>>, FALSE))])

\* func(tx) of ResetBucket, first statement: tx.DeleteBucket and its error check
ResetDeleteFn(t, o) ==
    LET d == TxDeleteBucket(t.s, o.b)
    IN IF d.err # NoErr THEN Fail(t, d.err)
       ELSE Ok([t EXCEPT !.s = d.s, !.h = Removed(t.h, o.b, Wrote("ResetBucket", <<>>, <<>>, FALSE))])

\* func(tx) of ResetBucket, second statement: tx.CreateBucketIfNotExists
ResetCreateFn(t, o) ==
    LET c == CreateBucketIfNotExists(t.s, o.b)
    IN IF c.err # NoErr THEN Fail(t, c.err) ELSE Ok([t EXCEPT !.s = c.s])

\* mutant: SetJSONBatch that creates the bucket as Set does
SetJSONBatchFnCreating(t, o) == SetFn(t, o)

\* func(tx) of DB.SetJSONBatch: bkt is nil when the bucket is missing and
\* bkt.Put dereferences it; an error of Put ends the process in logrus.Fatal
SetJSONBatchFn(t, o) ==
    IF ~TxBucket(t.s, o.b) THEN [t |-> t, err |-> NoErr, out |-> "panic"]
    ELSE LET p == Put(t.s[o.b], o.k, o.v)
         IN IF p.err # NoErr THEN [t |-> t, err |-> p.err, out |-> "fatal"]
            ELSE Ok([t EXCEPT !.s[o.b] = p.b,
                              !.h = Touch(t.h, o.b, Wrote("SetJSONBatch", o.k, o.v, HasKey(t.s[o.b].kv, o.k)))])

\* mutant: Get that reports a missing key as an error
GetFnStrict(s, o) ==
    IF ~TxBucket(s, o.b) \/ BGet(s[o.b], o.k) = None
    THEN [err |-> ErrWrapperBucketNotFound, val |-> None, pairs |-> <<>>]
    ELSE [err |-> NoErr, val |-> BGet(s[o.b], o.k), pairs |-> <<>>]

\* func(tx) of Get, with what Get returns
GetFn(s, o) ==
    IF ~TxBucket(s, o.b) THEN [err |-> ErrWrapperBucketNotFound, val |-> None, pairs |-> <<>>]
    ELSE [err |-> NoErr, val |-> BGet(s[o.b], o.k), pairs |-> <<>>]

\* func(tx) of DB.AllFunc as one step: the pairs the cursor loop hands to fn
AllFuncFn(s, o) ==
    IF ~TxBucket(s, o.b) THEN [err |-> ErrWrapperBucketNotFound, val |-> None, pairs |-> <<>>]
    ELSE [err |-> NoErr, val |-> None, pairs |-> s[o.b].kv]

\* the write closure of a call (AllFunc of src/blight.go writes nothing)
Closure(t, o) ==
    CASE o.name = "Set" -> SetFn(t, o)
      [] o.name = "Append" -> AppendFn(t, o)
      [] o.name = "Delete" -> DeleteFn(t, o)
      [] o.name = "CreateBucket" -> CreateBucketFn(t, o)
      [] o.name = "DeleteBucket" -> DeleteBucketFn(t, o)
      [] o.name = "SetJSONBatch" -> SetJSONBatchFn(t, o)
      [] o.name = "AllFunc" -> [t |-> t, err |-> AllFuncFn(t.s, o).err, out |-> "ok"]
      [] OTHER -> Ok(t)

----------------------------------------------------------------------------
(* The callers and the engine's transactions *)

Call(name, b, k, v) == [name |-> name, b |-> b, k |-> k, v |-> v]
NoCall == Call("none", "", <<>>, <<>>)

Pending == [err |-> "pending", val |-> None, pairs |-> <<>>]
Returned(e) == [err |-> e, val |-> None, pairs |-> <<>>]

NoTx == [s |-> EmptyStore, h |-> EmptyHist, base |-> EmptyStore]
NoSnap == [s |-> EmptyStore, h |-> EmptyHist, rst |-> <<>>]

\* the ResetBucket transaction in flight on a bucket that existed when it
\* began, with the bucket's contents then (at most one: the writer's);
\* mid: tx.DeleteBucket has run and tx.CreateBucketIfNotExists has not
ResetInFlight ==
    IF lock \in Procs /\ op[lock].name = "ResetBucket" /\ op[lock].b \in DOMAIN tx.base
    THEN <<[b |-> op[lock].b, pre |-> tx.base[op[lock].b], mid |-> pc[lock] = "reset2"]>>
    ELSE <<>>

\* the store when the callers start: bucket "b1" exists, Set has stored
\* key "k" in it and Append has run on it 254 times, of which the last record
\* is still there; bucket "b2" does not exist
InitStore ==
    [n \in {"b1"} |-> [kv |-> <<<<itob(254), <<49>>>>, <<<<107>>, <<49>>>>>>, seq |-> 254]]

\* the history of that store: its last write was the 254th Append
InitHist ==
    [last |-> [n \in Buckets |-> IF n = "b1" THEN Wrote("Append", itob(254), <<49>>, FALSE)
                                 ELSE NoWrite],
     app |-> [n \in Buckets |-> IF n = "b1" THEN <<Some(itob(254))>> ELSE <<>>]]

InitStoreVars ==
    /\ variant \in {"batch", "update"}
    /\ db = InitStore
    /\ hist = InitHist
    /\ lock = "free"
    /\ tx = NoTx
    /\ pc = [p \in Procs |-> "idle"]
    /\ op = [p \in Procs |-> NoCall]
    /\ ret = [p \in Procs |-> Pending]
    /\ snap = [p \in Procs |-> NoSnap]
    /\ batch = <<>>
    /\ running = {}
    /\ nops = 0
    /\ exited = FALSE

CanCall(p) == pc[p] = "idle" /\ nops < MaxOps /\ ~exited

\* db.Update(fn) is entered: the caller waits for the writer lock
EnterUpdate(p, o) ==
    /\ CanCall(p)
    /\ pc' = [pc EXCEPT ![p] = "update"]
    /\ op' = [op EXCEPT ![p] = o]
    /\ ret' = [ret EXCEPT ![p] = Pending]
    /\ snap' = [snap EXCEPT ![p] = NoSnap]
    /\ nops' = nops + 1
    /\ UNCHANGED <<variant, db, hist, lock, tx, batch, running, exited>>

\* db.View(fn) is entered: the read transaction takes its snapshot
EnterView(p, o) ==
    /\ CanCall(p)
    /\ pc' = [pc EXCEPT ![p] = "view"]
    /\ op' = [op EXCEPT ![p] = o]
    /\ ret' = [ret EXCEPT ![p] = Pending]
    /\ snap' = [snap EXCEPT ![p] = [s |-> db, h |-> hist, rst |-> ResetInFlight]]
    /\ nops' = nops + 1
    /\ UNCHANGED <<variant, db, hist, lock, tx, batch, running, exited>>

\* db.Batch(fn) is entered: the call joins db.batch; a batch that has reached
\* MaxBatchSize takes no more calls and is handed to trigger()
EnterBatch(p, o) ==
    /\ CanCall(p)
    /\ pc' = [pc EXCEPT ![p] = "batched"]
    /\ op' = [op EXCEPT ![p] = o]
    /\ ret' = [ret EXCEPT ![p] = Pending]
    /\ snap' = [snap EXCEPT ![p] = NoSnap]
    /\ nops' = nops + 1
    /\ IF Len(batch) + 1 >= MaxBatch
       THEN batch' = <<>> /\ running' = running \cup {Append(batch, p)}
       ELSE batch' = Append(batch, p) /\ running' = running
    /\ UNCHANGED <<variant, db, hist, lock, tx, exited>>

Write(p, o) == IF variant = "batch" THEN EnterBatch(p, o) ELSE EnterUpdate(p, o)

CallSet(p) ==
    \E b \in Buckets, k \in Keys, v \in Values : Write(p, Call("Set", b, k, v))

CallAppend(p) ==
    \E b \in Buckets, v \in Values : Write(p, Call("Append", b, <<>>, v))

CallGet(p) ==
    \E b \in Buckets, k \in Keys : EnterView(p, Call("Get", b, k, <<>>))

CallDelete(p) ==
    \E b \in Buckets, k \in Keys : EnterUpdate(p, Call("Delete", b, k, <<>>))

CallResetBucket(p) ==
    \E b \in Buckets : EnterUpdate(p, Call("ResetBucket", b, <<>>, <<>>))

CallCreateBucket(p) ==
    /\ variant = "batch"
    /\ \E b \in Buckets : EnterUpdate(p, Call("CreateBucket", b, <<>>, <<>>))

CallDeleteBucket(p) ==
    /\ variant = "batch"
    /\ \E b \in Buckets : EnterUpdate(p, Call("DeleteBucket", b, <<>>, <<>>))

\* DB.SetJSONBatch up to db.Batch: a value that does not encode is returned
\* as an error before any transaction
CallSetJSONBatch(p) ==
    /\ variant = "batch"
    /\ \E b \in Buckets, k \in Keys, gv \in GoValues :
         LET m == Marshal(gv)
         IN IF m.err # NoErr
            THEN /\ CanCall(p)
                 /\ op' = [op EXCEPT ![p] = Call("SetJSONBatch", b, k, <<>>)]
                 /\ ret' = [ret EXCEPT ![p] = Returned(m.err)]
                 /\ snap' = [snap EXCEPT ![p] = NoSnap]
                 /\ nops' = nops + 1
                 /\ UNCHANGED <<variant, db, hist, lock, tx, pc, batch, running, exited>>
            ELSE EnterBatch(p, Call("SetJSONBatch", b, k, m.j))

\* DB.AllFunc: a write transaction in src/blight.go, a read transaction in
\* src/unnamed/part_000
CallAllFunc(p) ==
    \E b \in Buckets :
        IF variant = "batch" THEN EnterUpdate(p, Call("AllFunc", b, <<>>, <<>>))
        ELSE EnterView(p, Call("AllFunc", b, <<>>, <<>>))

\* the timer of db.batch fires: trigger() detaches the batch
BatchTimer ==
    /\ ~exited
    /\ batch # <<>>
    /\ running' = running \cup {batch}
    /\ batch' = <<>>
    /\ UNCHANGED <<variant, db, hist, lock, tx, pc, op, ret, snap, nops, exited>>

\* the loop of batch.run's db.Update: the calls' closures in order, stopping
\* at the first that fails (safelyCall turns a panic into an error)
RECURSIVE RunCalls(_, _, _)
RunCalls(t, b, i) ==
    IF i > Len(b) THEN [t |-> t, fail |-> 0, out |-> "ok"]
    ELSE LET r == Closure(t, op[b[i]])
         IN IF r.out = "fatal" THEN [t |-> r.t, fail |-> i, out |-> "fatal"]
            ELSE IF r.out = "panic" \/ r.err # NoErr THEN [t |-> r.t, fail |-> i, out |-> "ok"]
            ELSE RunCalls(r.t, b, i + 1)

\* b.calls[failIdx], b.calls = b.calls[len-1], b.calls[:len-1]
DropCall(b, i) ==
    LET n == Len(b) IN SubSeq([b EXCEPT ![i] = b[n]], 1, n - 1)

\* whether a pass of batch.run commits: db.Update rolls back when fn fails
PassCommits(r) == r.fail = 0

\* one pass of batch.run's retry loop, under the writer lock
BatchPass ==
    /\ ~exited
    /\ lock = "free"
    /\ \E b \in running :
        LET r == RunCalls([s |-> db, h |-> hist, base |-> db], b, 1)
            rest == IF r.fail = 0 THEN <<>> ELSE DropCall(b, r.fail)
        IN IF r.out = "fatal"
           THEN /\ exited' = TRUE
                /\ UNCHANGED <<variant, db, hist, lock, tx, pc, op, ret, snap, batch,
                               running, nops>>
           ELSE /\ IF PassCommits(r) THEN db' = r.t.s /\ hist' = r.t.h
                   ELSE UNCHANGED <<db, hist>>
                /\ IF r.fail = 0
                   \* success is passed to all callers
                   THEN /\ pc' = [p \in Procs |->
                                    IF \E i \in 1..Len(b) : b[i] = p THEN "idle" ELSE pc[p]]
                        /\ ret' = [p \in Procs |->
                                    IF \E i \in 1..Len(b) : b[i] = p THEN Returned(NoErr)
                                    ELSE ret[p]]
                   \* the failing call is told trySolo: its caller runs db.Update(fn)
                   ELSE /\ pc' = [pc EXCEPT ![b[r.fail]] = "update"]
                        /\ ret' = ret
                /\ running' = (running \ {b}) \cup (IF rest = <<>> THEN {} ELSE {rest})
                /\ UNCHANGED <<variant, lock, tx, op, snap, batch, nops, exited>>

\* db.Update takes the writer lock and opens the transaction
UpdateBegin(p) ==
    /\ ~exited
    /\ pc[p] = "update"
    /\ lock = "free"
    /\ lock' = p
    /\ tx' = [s |-> db, h |-> hist, base |-> db]
    /\ pc' = [pc EXCEPT ![p] = "intx"]
    /\ UNCHANGED <<variant, db, hist, op, ret, snap, batch, running, nops, exited>>

\* what the callers of a wrapper see returned for the error of db.Update /
\* db.Batch: SetJSONBatch ends in "return nil"
WrapperErr(o, e) == IF o.name = "SetJSONBatch" THEN NoErr ELSE e

\* db.Update returns: commit on a nil error, rollback otherwise
EndUpdate(p, t, e, commit) ==
    /\ IF commit THEN db' = t.s /\ hist' = t.h ELSE UNCHANGED <<db, hist>>
    /\ lock' = "free"
    /\ tx' = NoTx
    /\ pc' = [pc EXCEPT ![p] = "idle"]
    /\ ret' = [ret EXCEPT ![p] =
                 IF op[p].name = "AllFunc" /\ e = NoErr
                 THEN AllFuncFn(t.s, op[p])
                 ELSE Returned(WrapperErr(op[p], e))]
    /\ UNCHANGED <<variant, op, snap, batch, running, nops, exited>>

\* fn runs in the transaction and db.Update ends (all calls but ResetBucket)
UpdateRun(p) ==
    /\ ~exited
    /\ pc[p] = "intx"
    /\ op[p].name # "ResetBucket"
    /\ LET r == Closure(tx, op[p])
       IN CASE r.out = "fatal" ->
                 /\ exited' = TRUE
                 /\ UNCHANGED <<variant, db, hist, lock, tx, pc, op, ret, snap, batch,
                                running, nops>>
            \* the panic unwinds through db.Update (rollback) into the
            \* deferred recover of SetJSONBatch, which returns the zero error
            [] r.out = "panic" -> EndUpdate(p, r.t, NoErr, FALSE)
            [] OTHER -> EndUpdate(p, r.t, r.err, r.err = NoErr)

\* mutant: the deletion is committed before the bucket is created again
PublishedAfterDelete(d, t) == t.s

\* the committed store while fn of ResetBucket is between its two statements:
\* both run in one db.Update, nothing is published before it returns
Published(d, t) == d

\* ResetBucket: tx.DeleteBucket inside db.Update
ResetDelete(p) ==
    /\ ~exited
    /\ pc[p] = "intx"
    /\ op[p].name = "ResetBucket"
    /\ LET r == ResetDeleteFn(tx, op[p])
       IN IF r.err # NoErr THEN EndUpdate(p, r.t, r.err, FALSE)
          ELSE /\ tx' = r.t
               /\ db' = Published(db, r.t)
               /\ pc' = [pc EXCEPT ![p] = "reset2"]
               /\ UNCHANGED <<variant, hist, lock, op, ret, snap, batch, running, nops,
                              exited>>

\* ResetBucket: tx.CreateBucketIfNotExists, then db.Update ends
ResetCreate(p) ==
    /\ ~exited
    /\ pc[p] = "reset2"
    /\ LET r == ResetCreateFn(tx, op[p])
       IN EndUpdate(p, r.t, r.err, r.err = NoErr)

\* fn of db.View runs on the snapshot and the call returns
ViewRead(p) ==
    /\ ~exited
    /\ pc[p] = "view"
    /\ ret' = [ret EXCEPT ![p] = IF op[p].name = "Get" THEN GetFn(snap[p].s, op[p])
                                 ELSE AllFuncFn(snap[p].s, op[p])]
    /\ pc' = [pc EXCEPT ![p] = "idle"]
    /\ UNCHANGED <<variant, db, hist, lock, tx, op, snap, batch, running, nops, exited>>

----------------------------------------------------------------------------
(* DB.AllFunc step by step: the token pool of src/blight.go and the cursor  *)
(* loop of src/unnamed/part_000, on bucket "b1"                             *)

AllFuncBucket == "b1"

InitPoolIdle ==
    /\ apc = "off"
    /\ cur = 0
    /\ tokens = 0
    /\ wg = 0
    /\ gor = <<>>
    /\ calls = <<>>
    /\ maxrun = 0
    /\ aret = "pending"

\* the stores AllFunc is run on: no bucket, or a bucket of up to MaxRecords
\* records under the keys Append generates
PoolStores ==
    {EmptyStore} \cup
    UNION {{[b \in {AllFuncBucket} |->
               [kv |-> [i \in 1..n |-> <<itob(i), vs[i]>>], seq |-> n]] :
            vs \in [1..n -> Values]} : n \in 0..MaxRecords}

InitPool ==
    /\ variant \in {"batch", "update"}
    /\ db \in PoolStores
    /\ hist = EmptyHist
    /\ lock = "free"
    /\ tx = NoTx
    /\ pc = [p \in Procs |-> "idle"]
    /\ op = [p \in Procs |-> NoCall]
    /\ ret = [p \in Procs |-> Pending]
    /\ snap = [p \in Procs |-> NoSnap]
    /\ batch = <<>>
    /\ running = {}
    /\ nops = 0
    /\ exited = FALSE
    /\ apc = "start"
    /\ cur = 0
    /\ tokens = 0
    /\ wg = 0
    /\ gor = <<>>
    /\ calls = <<>>
    /\ maxrun = 0
    /\ aret = "pending"

Running == Cardinality({i \in 1..Len(gor) : gor[i] = "infn"})

\* tokens := make(chan struct{}, 30), filled with 30 tokens
FillTokens ==
    /\ apc = "start"
    /\ variant = "batch"
    /\ tokens' = PoolSize
    /\ apc' = "update"
    /\ UNCHANGED <<storeVars, cur, wg, gor, calls, maxrun, aret>>

\* d.db.Update begins; a nil bucket ends the call with an error,
\* otherwise c.First()
PoolBegin ==
    /\ apc = "update"
    /\ lock = "free"
    /\ IF ~TxBucket(db, AllFuncBucket)
       THEN /\ apc' = "done"
            /\ aret' = ErrWrapperBucketNotFound
            /\ UNCHANGED <<lock, tx, cur>>
       ELSE /\ lock' = "AllFunc"
            /\ tx' = [s |-> db, h |-> hist, base |-> db]
            /\ cur' = 1
            /\ apc' = "loop"
            /\ aret' = aret
    /\ UNCHANGED <<variant, db, hist, pc, op, ret, snap, batch, running, nops, exited,
                   tokens, wg, gor, calls, maxrun>>

\* mutant: a dispatch that does not wait for a token
CanTakeAlways(n) == TRUE

\* <-tokens can proceed
CanTake(n) == n > 0

\* the loop body: <-tokens, wg.Add(1), go func(k, v){...}(k, v), c.Next()
Dispatch ==
    /\ apc = "loop"
    /\ cur <= Len(tx.s[AllFuncBucket].kv)
    /\ CanTake(tokens)
    /\ tokens' = tokens - 1
    /\ wg' = wg + 1
    /\ gor' = Append(gor, "spawned")
    /\ cur' = cur + 1
    /\ UNCHANGED <<storeVars, apc, calls, maxrun, aret>>

\* k == nil: the loop is left for wg.Wait()
LoopEnd ==
    /\ apc = "loop"
    /\ cur > Len(tx.s[AllFuncBucket].kv)
    /\ apc' = "wait"
    /\ UNCHANGED <<storeVars, cur, tokens, wg, gor, calls, maxrun, aret>>

\* a goroutine starts fn(k, v) with the pair it was started with
GoCall(i) ==
    /\ gor[i] = "spawned"
    /\ gor' = [gor EXCEPT ![i] = "infn"]
    /\ calls' = Append(calls, tx.s[AllFuncBucket].kv[i])
    /\ maxrun' = IF Running + 1 > maxrun THEN Running + 1 ELSE maxrun
    /\ UNCHANGED <<storeVars, apc, cur, tokens, wg, aret>>

\* fn returns
GoReturn(i) ==
    /\ gor[i] = "infn"
    /\ gor' = [gor EXCEPT ![i] = "fndone"]
    /\ UNCHANGED <<storeVars, apc, cur, tokens, wg, calls, maxrun, aret>>

\* wg.Done()
GoWgDone(i) ==
    /\ gor[i] = "fndone"
    /\ gor' = [gor EXCEPT ![i] = "wgdone"]
    /\ wg' = wg - 1
    /\ UNCHANGED <<storeVars, apc, cur, tokens, calls, maxrun, aret>>

\* tokens <- struct{}{}: blocks while the channel is full
GoToken(i) ==
    /\ gor[i] = "wgdone"
    /\ tokens < PoolSize
    /\ gor' = [gor EXCEPT ![i] = "finished"]
    /\ tokens' = tokens + 1
    /\ UNCHANGED <<storeVars, apc, cur, wg, calls, maxrun, aret>>

\* mutant: AllFunc that does not wait for its goroutines
WaitOverAlways(n) == TRUE

\* wg.Wait() returns
WaitOver(n) == n = 0

\* wg.Wait() returns, fn of db.Update returns nil, the transaction commits
PoolWait ==
    /\ apc = "wait"
    /\ WaitOver(wg)
    /\ apc' = "done"
    /\ aret' = NoErr
    /\ lock' = "free"
    /\ UNCHANGED <<variant, db, hist, tx, pc, op, ret, snap, batch, running, nops, exited,
                   cur, tokens, wg, gor, calls, maxrun>>

\* src/unnamed/part_000: d.db.View begins; a nil bucket is an error
SeqBegin ==
    /\ apc = "start"
    /\ variant = "update"
    /\ IF ~TxBucket(db, AllFuncBucket)
       THEN /\ apc' = "done"
            /\ aret' = ErrWrapperBucketNotFound
            /\ UNCHANGED <<tx, cur>>
       ELSE /\ tx' = [s |-> db, h |-> hist, base |-> db]
            /\ cur' = 1
            /\ apc' = "seqloop"
            /\ aret' = aret
    /\ UNCHANGED <<variant, db, hist, lock, pc, op, ret, snap, batch, running, nops,
                   exited, tokens, wg, gor, calls, maxrun>>

\* c.Next()
CursorNext(c) == c + 1

\* src/unnamed/part_000: the loop body, fn(k, v) then c.Next()
SeqStep ==
    /\ apc = "seqloop"
    /\ cur <= Len(tx.s[AllFuncBucket].kv)
    /\ calls' = Append(calls, tx.s[AllFuncBucket].kv[cur])
    /\ cur' = CursorNext(cur)
    /\ UNCHANGED <<storeVars, apc, tokens, wg, gor, maxrun, aret>>

\* src/unnamed/part_000: k == nil, fn of db.View returns nil
SeqEnd ==
    /\ apc = "seqloop"
    /\ cur > Len(tx.s[AllFuncBucket].kv)
    /\ apc' = "done"
    /\ aret' = NoErr
    /\ UNCHANGED <<storeVars, cur, tokens, wg, gor, calls, maxrun>>

----------------------------------------------------------------------------
(* Specifications *)

Init == InitStoreVars /\ InitPoolIdle

Next ==
    \/ \E p \in Procs :
        \/ CallSet(p) /\ UNCHANGED poolVars
        \/ CallAppend(p) /\ UNCHANGED poolVars
        \/ CallGet(p) /\ UNCHANGED poolVars
        \/ CallDelete(p) /\ UNCHANGED poolVars
        \/ CallResetBucket(p) /\ UNCHANGED poolVars
        \/ CallCreateBucket(p) /\ UNCHANGED poolVars
        \/ CallDeleteBucket(p) /\ UNCHANGED poolVars
        \/ CallSetJSONBatch(p) /\ UNCHANGED poolVars
        \/ CallAllFunc(p) /\ UNCHANGED poolVars
        \/ UpdateBegin(p) /\ UNCHANGED poolVars
        \/ UpdateRun(p) /\ UNCHANGED poolVars
        \/ ResetDelete(p) /\ UNCHANGED poolVars
        \/ ResetCreate(p) /\ UNCHANGED poolVars
        \/ ViewRead(p) /\ UNCHANGED poolVars
    \/ BatchTimer /\ UNCHANGED poolVars
    \/ BatchPass /\ UNCHANGED poolVars

Spec == Init /\ [][Next]_vars

PoolNext ==
    \/ FillTokens
    \/ PoolBegin
    \/ Dispatch
    \/ LoopEnd
    \/ \E i \in 1..Len(gor) : GoCall(i)
    \/ \E i \in 1..Len(gor) : GoReturn(i)
    \/ \E i \in 1..Len(gor) : GoWgDone(i)
    \/ \E i \in 1..Len(gor) : GoToken(i)
    \/ PoolWait
    \/ SeqBegin
    \/ SeqStep
    \/ SeqEnd

PoolSpec == InitPool /\ [][PoolNext]_vars

\* every goroutine that can run is scheduled, and fn returns
PoolFair == PoolSpec /\ WF_vars(PoolNext)

----------------------------------------------------------------------------
(* Properties *)

\* the records of a bucket, read without the cursor
Recs(bkt) == {bkt.kv[i] : i \in 1..Len(bkt.kv)}
Holds(bkt, k) == \E r \in Recs(bkt) : r[1] = k
CountOf(bkt, k) == Cardinality({i \in 1..Len(bkt.kv) : bkt.kv[i][1] = k})

\* a call of the given name has returned to caller p
Back(p, name) == pc[p] = "idle" /\ op[p].name = name /\ ret[p].err # "pending"

\* caller p returns from its call in this step
Returns(p) == pc[p] # "idle" /\ pc'[p] = "idle"

\* C1: once Set(B,K,V) has committed and no later write to B has, a Get(B,K)
\* returns V and no error, B exists (created by the Set if it was absent) and
\* holds exactly one record for K, also when K held another value before.
C1_SetThenGet ==
    /\ \A b \in Buckets :
        hist.last[b].name = "Set" =>
            /\ b \in DOMAIN db
            /\ GetFn(db, Call("Get", b, hist.last[b].k, <<>>)).err = NoErr
            /\ GetFn(db, Call("Get", b, hist.last[b].k, <<>>)).val = Some(hist.last[b].v)
            /\ CountOf(db[b], hist.last[b].k) = 1
    /\ \A p \in Procs :
        (Back(p, "Get") /\ snap[p].h.last[op[p].b].name = "Set"
                        /\ snap[p].h.last[op[p].b].k = op[p].k) =>
            /\ ret[p].err = NoErr
            /\ ret[p].val = Some(snap[p].h.last[op[p].b].v)

\* a Get has returned the value of a Set that replaced an older value
C1_Witness ==
    \E p \in Procs :
        /\ Back(p, "Get")
        /\ snap[p].h.last[op[p].b] = Wrote("Set", op[p].k, <<50>>, TRUE)
        /\ ret[p].val = Some(<<50>>)

\* a Get has returned the value of a Set that created its bucket
C1_WitnessCreated ==
    \E p \in Procs :
        /\ Back(p, "Get")
        /\ op[p].b = "b2"
        /\ snap[p].h.last["b2"].name = "Set"
        /\ ret[p].val # None

\* the keys of the Append calls committed on bucket b, in commit order, with
\* None where the bucket was removed
KeysOf(b) == hist.app[b]

\* C2 as stated: of any two Append calls on a bucket, the one that commits
\* later gets the byte-wise greater key, so no two get the same key.
C2_Original ==
    \A b \in Buckets :
        \A i, j \in 1..Len(KeysOf(b)) :
            (i < j /\ KeysOf(b)[i] # None /\ KeysOf(b)[j] # None) =>
                BytesLess(KeysOf(b)[i][1], KeysOf(b)[j][1])

\* C2, amended: of any two Append calls on a bucket between which the bucket
\* was not removed (DeleteBucket, ResetBucket), the one that commits later
\* gets the byte-wise greater 8-byte key; this in both variants and under
\* every interleaving of the callers.
C2_IncreasingBetweenResets ==
    \A b \in Buckets :
        \A i, j \in 1..Len(KeysOf(b)) :
            (/\ i < j
             /\ \A m \in i..j : KeysOf(b)[m] # None) =>
                /\ Len(KeysOf(b)[i][1]) = 8
                /\ Len(KeysOf(b)[j][1]) = 8
                /\ BytesLess(KeysOf(b)[i][1], KeysOf(b)[j][1])

\* two Append calls of two callers have committed on one bucket with no
\* removal between them, through db.Batch
C2_Witness ==
    /\ variant = "batch"
    /\ \E b \in Buckets :
        /\ Len(KeysOf(b)) = 3
        /\ \A m \in 1..3 : KeysOf(b)[m] # None
    /\ \A p \in Procs : Back(p, "Append")

\* C3 as stated: a Get that follows ResetBucket(B) at once finds the bucket,
\* for every B and every store: when ResetBucket returns, B exists and is
\* empty.  (Stated for the non-empty names, which the engine accepts.)
C3_ResetThenGet ==
    [][\A p \in Procs :
         (Returns(p) /\ op[p].name = "ResetBucket" /\ op[p].b # "") =>
            \A k \in Keys :
                /\ GetFn(db', Call("Get", op[p].b, k, <<>>)).err = NoErr
                /\ GetFn(db', Call("Get", op[p].b, k, <<>>)).val = None]_vars

\* C4: while ResetBucket(B) on an existing B is in its transaction, the
\* committed store has B with its contents of before, no other caller is
\* inside a write transaction, and every read transaction begun meanwhile
\* has B in its snapshot with those contents and finds it; once the reset
\* is committed the store has B empty.
C4_ResetAtomic ==
    /\ \A r \in Procs :
        (pc[r] \in {"intx", "reset2"} /\ op[r].name = "ResetBucket"
           /\ op[r].b \in DOMAIN tx.base) =>
            /\ lock = r
            /\ op[r].b \in DOMAIN db
            /\ db[op[r].b] = tx.base[op[r].b]
            /\ \A q \in Procs \ {r} : pc[q] \notin {"intx", "reset2"}
    /\ \A q \in Procs :
        \A i \in 1..Len(snap[q].rst) :
            /\ snap[q].rst[i].b \in DOMAIN snap[q].s
            /\ snap[q].s[snap[q].rst[i].b] = snap[q].rst[i].pre
            /\ (pc[q] = "idle" /\ op[q].b = snap[q].rst[i].b) => ret[q].err = NoErr
    /\ \A b \in Buckets :
        hist.last[b].name = "ResetBucket" => (b \in DOMAIN db /\ db[b] = EmptyBucket)

\* a Get began between the two statements of a ResetBucket on a bucket that
\* held a record, and has returned that record while the reset is still open
C4_Witness ==
    \E q, r \in Procs :
        /\ pc[r] = "reset2"
        /\ Back(q, "Get")
        /\ snap[q].rst # <<>>
        /\ snap[q].rst[1].mid
        /\ op[q].b = op[r].b
        /\ ret[q].val # None

C5_GetResult ==
    \A p \in Procs :
        Back(p, "Get") =>
            LET s == snap[p].s
                b == op[p].b
            IN /\ ret[p].err # NoErr <=> b \notin DOMAIN s
               /\ ret[p].err # NoErr => (ret[p].err = ErrWrapperBucketNotFound /\ ret[p].val = None)
               /\ (b \in DOMAIN s /\ ~Holds(s[b], op[p].k)) => ret[p].val = None
               /\ b \in DOMAIN s =>
                    \A r \in Recs(s[b]) : r[1] = op[p].k => ret[p].val = Some(r[2])

C5_GetReadOnly ==
    \A p \in Procs : (pc[p] = "view" /\ Returns(p)) => (db' = db /\ hist' = hist)

\* C5: Get returns the bucket-not-found error exactly when the bucket does
\* not exist in its read transaction; for an existing bucket it returns no
\* error, nil when the key is absent and the stored value otherwise; and it
\* leaves the store as it is.
C5_Get == [](C5_GetResult) /\ [][C5_GetReadOnly]_vars

\* a Get on an existing bucket that lacks the key has returned nil, no error
C5_Witness ==
    \E p \in Procs :
        /\ Back(p, "Get")
        /\ op[p].b \in DOMAIN snap[p].s
        /\ op[p].k # <<>>
        /\ ret[p].err = NoErr
        /\ ret[p].val = None

\* C6: Delete(B,K) on a missing B returns the bucket-not-found error and
\* changes nothing; on an existing B it returns no error, K is absent
\* afterwards, all other records of B, its sequence and all other buckets
\* are as before.
C6_Delete ==
    [][\A p \in Procs :
         (Returns(p) /\ op[p].name = "Delete") =>
            IF op[p].b \notin DOMAIN db
            THEN ret'[p].err = ErrWrapperBucketNotFound /\ db' = db
            ELSE /\ ret'[p].err = NoErr
                 /\ DOMAIN db' = DOMAIN db
                 /\ \A b \in DOMAIN db : b # op[p].b => db'[b] = db[b]
                 /\ ~Holds(db'[op[p].b], op[p].k)
                 /\ Recs(db'[op[p].b]) = {r \in Recs(db[op[p].b]) : r[1] # op[p].k}
                 /\ db'[op[p].b].seq = db[op[p].b].seq]_vars

\* a Delete has removed a key that was there, from one of two buckets
C6_Witness ==
    \E p \in Procs :
        /\ Back(p, "Delete")
        /\ ret[p].err = NoErr
        /\ hist.last[op[p].b] = Wrote("Delete", op[p].k, <<>>, TRUE)
        /\ Cardinality(DOMAIN db) = 2

\* C8 as stated: CreateBucket and DeleteBucket return no error whether or not
\* the bucket exists.  (Stated for the non-empty names, which the engine
\* accepts.)
C8_Idempotent ==
    \A p \in Procs :
        ((Back(p, "CreateBucket") \/ Back(p, "DeleteBucket")) /\ op[p].b # "")
            => ret[p].err = NoErr

SJBInFlight(p) == op[p].name = "SetJSONBatch" /\ pc[p] \in {"batched", "update", "intx"}

C10_Returned ==
    \A p \in Procs :
        Back(p, "SetJSONBatch") =>
            /\ ret[p].err \in {NoErr, ErrMarshal}
            /\ ret[p].err = ErrMarshal <=> op[p].v = <<>>

C10_Applied ==
    \A b \in Buckets :
        hist.last[b].name = "SetJSONBatch" =>
            /\ b \in DOMAIN db
            /\ GetFn(db, Call("Get", b, hist.last[b].k, <<>>)).err = NoErr
            /\ GetFn(db, Call("Get", b, hist.last[b].k, <<>>)).val = Some(hist.last[b].v)
            /\ hist.last[b].v \in {Marshal(gv).j : gv \in GoValues}

C10_Step ==
    \A p \in Procs :
        (Returns(p) /\ op[p].name = "SetJSONBatch") =>
            /\ ret'[p].err = NoErr
            \* bucket missing when fn runs (fn has panicked in its batch and
            \* runs again alone): nothing is written, no bucket is created
            /\ (pc[p] = "intx" /\ op[p].b \notin DOMAIN db) => (db' = db /\ hist' = hist)
            \* bucket there when fn runs: the key is written
            /\ (pc[p] = "batched" \/ op[p].b \in DOMAIN db) =>
                 (op[p].b \in DOMAIN db' /\ Holds(db'[op[p].b], op[p].k))

\* the process ends in logrus.Fatal only under a SetJSONBatch with a key
\* bkt.Put refuses
C10_FatalOnlyOnBadKey ==
    exited => \E p \in Procs : SJBInFlight(p) /\ op[p].k = <<>>

----------------------------------------------------------------------------
(* Properties of AllFunc *)

Walked == IF TxBucket(db, AllFuncBucket) THEN db[AllFuncBucket].kv ELSE <<>>
TimesCalled(r) == Cardinality({j \in 1..Len(calls) : calls[j] = r})

\* C7: when AllFunc returns from an existing bucket of N records, fn has been
\* invoked N times, once with each record's key and value, and every
\* invocation has returned; at no time is a record handed to fn twice or
\* something handed to fn that is not a record; on a missing bucket AllFunc
\* returns the bucket-not-found error and fn is never invoked.  This for the
\* cursor loop and for the pool, under every schedule of the goroutines.
C7_AllFuncVisitsAll ==
    /\ \A j \in 1..Len(calls) : \E i \in 1..Len(Walked) : calls[j] = Walked[i]
    /\ \A i \in 1..Len(Walked) : TimesCalled(Walked[i]) <= 1
    /\ apc = "done" =>
        IF ~TxBucket(db, AllFuncBucket)
        THEN aret = ErrWrapperBucketNotFound /\ calls = <<>>
        ELSE /\ aret = NoErr
             /\ Len(calls) = Len(Walked)
             /\ \A i \in 1..Len(Walked) : TimesCalled(Walked[i]) = 1
             /\ \A i \in 1..Len(gor) : gor[i] \in {"fndone", "wgdone", "finished"}
             /\ variant = "batch" => Len(gor) = Len(Walked)

\* the pool has returned from a bucket of more records than it has tokens,
\* fn having been invoked in another order than the cursor's
C7_Witness ==
    /\ apc = "done"
    /\ variant = "batch"
    /\ Len(calls) > PoolSize
    /\ calls # Walked

InPool(i) == gor[i] \in {"spawned", "infn", "fndone", "wgdone"}

C9_Safe ==
    \* at most PoolSize callbacks execute at once
    /\ Running <= PoolSize
    /\ maxrun <= PoolSize
    \* a token is away for each goroutine that has not returned it
    /\ apc \in {"update", "loop", "wait", "done"} /\ variant = "batch" /\ aret # ErrWrapperBucketNotFound
         => tokens + Cardinality({i \in 1..Len(gor) : InPool(i)}) = PoolSize
    /\ tokens >= 0 /\ tokens <= PoolSize
    \* returning a token never blocks
    /\ \A i \in 1..Len(gor) : gor[i] = "wgdone" => tokens < PoolSize
    \* the transaction stays open while a callback has not completed
    /\ \A i \in 1..Len(gor) : gor[i] \in {"spawned", "infn"} => (lock = "AllFunc" /\ apc # "done")
    /\ wg = Cardinality({i \in 1..Len(gor) : gor[i] \in {"spawned", "infn", "fndone"}})

\* C9: in the pool variant at most PoolSize (30 in the source) callbacks
\* execute at once, a token is taken before each callback starts and given
\* back after it has finished without ever blocking, the transaction is open
\* and AllFunc has not returned while a dispatched callback has not
\* completed; and if every callback returns, AllFunc returns.
C9_Pool == [](C9_Safe) /\ <>(apc = "done")

\* the pool was full: as many callbacks as tokens were executing at once,
\* with records still to dispatch, and AllFunc has returned
C9_Witness ==
    /\ apc = "done"
    /\ variant = "batch"
    /\ maxrun = PoolSize
    /\ Len(gor) > PoolSize

====
